---- MODULE Spec2Model ----
(***************************************************************************)
(* The query-and-display pipeline of the Movie component.                  *)
(*                                                                         *)
(* The repository holds two variants of the component:                     *)
(*   src/src/components/Movie.js  effect deps [page, query], client sort   *)
(*   src/unnamed/part_000         effect deps [page, query, sort],         *)
(*                                 totalPages, grid hidden while loading   *)
(* The variable `variant` says which one a behaviour runs.                 *)
(*                                                                         *)
(* Strings the code transforms (the search text, the submitted query, the  *)
(* escaped query of the URL) are sequences of one-character strings.       *)
(***************************************************************************)
EXTENDS Integers, Sequences, FiniteSets, TLC

VARIABLES
    variant,      \* which source file runs
    hasKey,       \* API_KEY is truthy
    mounted,      \* the first render's effect has run
    movies,       \* useState([])
    page,         \* useState(1)
    totalPages,   \* useState(0)   (part_000 only; stays 0 in Movie.js)
    searchInput,  \* useState("")
    query,        \* useState("")
    sort,         \* useState("release_desc") / useState("")
    loading,      \* useState(false)
    error,        \* useState("")
    requests,     \* every run of load() so far, oldest first
    issued,       \* history: the URL of the most recent fetch(url) call
    last          \* history: the step just taken

vars == <<variant, hasKey, mounted, movies, page, totalPages, searchInput,
          query, sort, loading, error, requests, issued, last>>

MovieJs == "Movie.js"
Part000 == "part_000"

\* ------------------------------------------------------------------ bounds
MaxRequests == 3
MaxPage == 3

\* ------------------------------------------------------------------ strings
IsSpace(c) == c = " "

RECURSIVE trimStart(_)
trimStart(s) ==
    IF s = <<>> THEN <<>>
    ELSE IF IsSpace(Head(s)) THEN trimStart(Tail(s)) ELSE s

RECURSIVE trimEnd(_)
trimEnd(s) ==
    IF s = <<>> THEN <<>>
    ELSE IF IsSpace(s[Len(s)]) THEN trimEnd(SubSeq(s, 1, Len(s) - 1)) ELSE s

\* String.prototype.trim
trim(s) == trimEnd(trimStart(s))

\* encodeURIComponent on one character: unreserved characters stay, the
\* others become their percent-encoded UTF-8 byte.
encodeChar(c) ==
    CASE c = " " -> <<"%", "2", "0">>
      [] c = "&" -> <<"%", "2", "6">>
      [] c = "%" -> <<"%", "2", "5">>
      [] OTHER   -> <<c>>

RECURSIVE encodeURIComponent(_)
encodeURIComponent(s) ==
    IF s = <<>> THEN <<>>
    ELSE encodeChar(Head(s)) \o encodeURIComponent(Tail(s))

\* The texts the user types into the search box: empty, blank, and " a & ".
SearchTexts ==
    { <<>>, <<" ">>, <<" ", "a", " ", "&", " ">> }

\* ------------------------------------------------------------------ sort keys
InitialSort == IF variant = MovieJs THEN "release_desc" ELSE ""

\* The <option> values of the sort select.
SortOptions ==
    IF variant = MovieJs
    THEN {"release_desc", "release_asc", "rating_desc", "rating_asc"}
    ELSE {"", "release_date.asc", "release_date.desc",
          "vote_average.asc", "vote_average.desc"}

\* The options the user picks in the behaviours explored.
SortChoices ==
    IF variant = MovieJs
    THEN {"release_desc", "rating_asc"}
    ELSE {"", "release_date.asc", "vote_average.desc"}

\* ------------------------------------------------------------------ the API
\* MovieRecords of the response bodies; an absent JSON field is an absent
\* record field.
mA == [id |-> 1, title |-> "A", release_date |-> "2020-01-01", vote_average |-> 5]
mB == [id |-> 2, title |-> "B", release_date |-> "1999-01-01", vote_average |-> 8]
mC == [id |-> 3, title |-> "C", vote_average |-> 5]
mD == [id |-> 4, release_date |-> "1969-12-31"]

\* The JSON bodies a successful response may carry.
Bodies ==
    { [results |-> <<mA, mB>>, total_pages |-> 2],
      [results |-> <<mC, mB, mD>>],
      [results |-> <<>>, total_pages |-> 1],
      [status_message |-> "no results array"] }

\* The ways the first await ends in the catch block: res.ok false (the thrown
\* Error's message), or fetch() rejected, here with an empty message.
HttpFailure == "TMDB request failed (500)"
FetchFailures == { HttpFailure, "" }

\* The rejection of res.json().
JsonFailures == { "Unexpected end of JSON input" }

MissingKeyMessage ==
    "Missing REACT_APP_TMDB_API_KEY. Add it to a .env file and restart npm start."

SomethingWentWrong == "Something went wrong."

\* ------------------------------------------------------------------ requests
NoResp == [kind |-> "none"]

\* buildUrl with a plausible fault: the query goes into the URL as typed.
buildUrlRaw(q, p, s) ==
    IF Len(trim(q)) > 0
    THEN [endpoint |-> "search/movie", query |-> q, page |-> p]
    ELSE IF variant = Part000 /\ s # ""
         THEN [endpoint |-> "discover/movie", page |-> p, sort_by |-> s]
         ELSE [endpoint |-> "discover/movie", page |-> p]

\* The URL load() builds, as its endpoint and parameters.
buildUrl(q, p, s) ==
    IF Len(trim(q)) > 0
    THEN [endpoint |-> "search/movie", query |-> encodeURIComponent(q), page |-> p]
    ELSE IF variant = Part000 /\ s # ""
         THEN [endpoint |-> "discover/movie", page |-> p, sort_by |-> s]
         ELSE [endpoint |-> "discover/movie", page |-> p]

\* One run of load(): its `cancelled` flag, the await it is suspended at
\* ("fetch", "json", or "done"), and, as history, how it ended and whether it
\* was still current (not cancelled) when it did.
newRequest ==
    [cancelled |-> FALSE, stage |-> "fetch", resp |-> NoResp]

NoUrl == [endpoint |-> "none"]

\* cleanup with a plausible fault: the effect returns no cleanup: nothing is cancelled.
cleanupNothing(reqs) == reqs

\* cleanup with a plausible fault: the flag of the first effect run is set
\* instead of that of the previous one.
cleanupFirst(reqs) ==
    IF reqs = <<>> THEN reqs
    ELSE [reqs EXCEPT ![1].cancelled = TRUE]

\* The cleanup the previous effect run returned: cancelled = true.
cleanup(reqs) ==
    IF reqs = <<>> THEN reqs
    ELSE [reqs EXCEPT ![Len(reqs)].cancelled = TRUE]

\* load with a plausible fault: load() without its setError("").
loadKeepsError(reqs, p, q, s) ==
    /\ loading' = TRUE
    /\ error' = error
    /\ requests' = Append(reqs, newRequest)
    /\ issued' = buildUrl(q, p, s)

\* load() up to its first await: setLoading(true), setError(""), fetch(url).
load(reqs, p, q, s) ==
    /\ loading' = TRUE
    /\ error' = ""
    /\ requests' = Append(reqs, newRequest)
    /\ issued' = buildUrl(q, p, s)

\* useEffect with a plausible fault: the effect without its API_KEY guard.
useEffectUnguarded(reqs, p, q, s) == load(reqs, p, q, s)

\* The effect's body.
useEffect(reqs, p, q, s) ==
    IF ~hasKey
    THEN /\ error' = MissingKeyMessage
         /\ UNCHANGED <<loading, requests, issued>>
    ELSE load(reqs, p, q, s)

\* deps with a plausible fault: Movie.js lists sort among its dependencies too.
depsWithSort(p, q, s) == <<p, q, s>>

\* The effect's dependency array.
deps(p, q, s) == IF variant = Part000 THEN <<p, q, s>> ELSE <<p, q>>

\* A render committing page p, query q and sort s, and the effect that
\* follows it when a dependency changed (the previous run's cleanup first).
render(p, q, s) ==
    /\ page' = p
    /\ query' = q
    /\ sort' = s
    /\ IF deps(p, q, s) # deps(page, query, sort)
       THEN /\ Len(requests) < MaxRequests
            /\ useEffect(cleanup(requests), p, q, s)
       ELSE UNCHANGED <<loading, error, requests, issued>>

\* ------------------------------------------------------------------ load(): after the awaits
\* catch with a plausible fault: the error is stored without looking at `cancelled`.
catchUnguarded(i, message) ==
    error' = (IF message # "" THEN message ELSE SomethingWentWrong)

\* catch (e) { if (!cancelled) setError(e.message || "Something went wrong.") }
catch(i, message) ==
    IF ~requests[i].cancelled
    THEN error' = (IF message # "" THEN message ELSE SomethingWentWrong)
    ELSE UNCHANGED error

\* finally with a plausible fault: the flag is never cleared.
finallyNever(i) == UNCHANGED loading

\* finally { if (!cancelled) setLoading(false) }
finally(i) ==
    IF ~requests[i].cancelled THEN loading' = FALSE ELSE UNCHANGED loading

\* resultsOf with a plausible fault: the first record of the array is lost.
resultsOfTail(data) ==
    IF "results" \in DOMAIN data /\ data.results # <<>>
    THEN Tail(data.results) ELSE <<>>

\* Array.isArray(data.results) ? data.results : []
resultsOf(data) == IF "results" \in DOMAIN data THEN data.results ELSE <<>>

\* if (!cancelled) { setMovies(...); setTotalPages(...) }
store(i, data) ==
    IF ~requests[i].cancelled
    THEN /\ movies' = resultsOf(data)
         /\ totalPages' =
               (IF variant = Part000
                THEN (IF "total_pages" \in DOMAIN data THEN data.total_pages ELSE 0)
                ELSE totalPages)
    ELSE UNCHANGED <<movies, totalPages>>
\* ------------------------------------------------------------------ sortedMovies
\* new Date(release_date).getTime() on the date strings of the bodies, in
\* days since the epoch instead of milliseconds; NaN for any other text.
getTime(d) ==
    CASE d = "2020-01-01" -> [finite |-> TRUE, value |-> 18262]
      [] d = "1999-01-01" -> [finite |-> TRUE, value |-> 10592]
      [] d = "1970-01-01" -> [finite |-> TRUE, value |-> 0]
      [] d = "1969-12-31" -> [finite |-> TRUE, value |-> -1]
      [] OTHER            -> [finite |-> FALSE, value |-> 0]

dateVal(m) ==
    LET t == IF "release_date" \in DOMAIN m /\ m.release_date # ""
             THEN getTime(m.release_date)
             ELSE [finite |-> TRUE, value |-> 0]
    IN  IF t.finite THEN t.value ELSE 0

ratingVal(m) == IF "vote_average" \in DOMAIN m THEN m.vote_average ELSE 0

\* compare with a plausible fault: the descending keys compare as the
\* ascending ones.
compareAscending(s, a, b) ==
    CASE s \in {"release_asc", "release_date.asc", "release_desc", "release_date.desc"}
            -> dateVal(a) - dateVal(b)
      [] s \in {"rating_asc", "vote_average.asc", "rating_desc", "vote_average.desc"}
            -> ratingVal(a) - ratingVal(b)
      [] OTHER -> 0

\* The comparator copy.sort is given under sort key s.
compare(s, a, b) ==
    CASE s \in {"release_asc", "release_date.asc"}   -> dateVal(a) - dateVal(b)
      [] s \in {"release_desc", "release_date.desc"} -> dateVal(b) - dateVal(a)
      [] s \in {"rating_asc", "vote_average.asc"}    -> ratingVal(a) - ratingVal(b)
      [] s \in {"rating_desc", "vote_average.desc"}  -> ratingVal(b) - ratingVal(a)
      [] OTHER -> 0

\* insert with a plausible fault: x goes before the first element it is not
\* greater than, as an unstable sort may place it.
RECURSIVE insertBeforeEqual(_, _, _)
insertBeforeEqual(s, x, sorted) ==
    IF sorted = <<>> THEN <<x>>
    ELSE IF compare(s, x, Head(sorted)) <= 0 THEN <<x>> \o sorted
    ELSE <<Head(sorted)>> \o insertBeforeEqual(s, x, Tail(sorted))

\* Array.prototype.sort is stable: x, which came later, goes before the
\* first element it is strictly less than.
RECURSIVE insert(_, _, _)
insert(s, x, sorted) ==
    IF sorted = <<>> THEN <<x>>
    ELSE IF compare(s, x, Head(sorted)) < 0 THEN <<x>> \o sorted
    ELSE <<Head(sorted)>> \o insert(s, x, Tail(sorted))

RECURSIVE sortCopy(_, _)
sortCopy(s, ms) ==
    IF ms = <<>> THEN <<>>
    ELSE insert(s, ms[Len(ms)], sortCopy(s, SubSeq(ms, 1, Len(ms) - 1)))

\* sortedOf with a plausible fault: without a sort key the copy is sorted
\* newest first instead of being left alone.
sortedOfNewestFirst(ms, q, s) ==
    IF s = "" THEN sortCopy("release_date.desc", ms)
    ELSE IF variant = Part000 /\ q = <<>> THEN ms
    ELSE sortCopy(s, ms)

\* useMemo(() => ..., [movies, sort(, query)])
sortedOf(ms, q, s) ==
    IF variant = Part000 /\ (q = <<>> \/ s = "") THEN ms
    ELSE sortCopy(s, ms)

sortedMovies == sortedOf(movies, query, sort)

\* ------------------------------------------------------------------ what is rendered
\* The grid and the pager are rendered under !loading && !error in part_000,
\* always in Movie.js.
gridRendered == variant = MovieJs \/ (~loading /\ error = "")

\* The movie cards on screen.
cards == IF gridRendered THEN sortedMovies ELSE <<>>

\* The "No movies found." element is on screen.
noResults ==
    IF variant = MovieJs
    THEN ~loading /\ error = "" /\ Len(sortedMovies) = 0
    ELSE gridRendered /\ Len(sortedMovies) = 0

prevDisabled == page = 1 \/ loading

\* nextDisabled with a plausible fault: part_000's Next ignores totalPages.
nextDisabledWhileLoading == loading

nextDisabled ==
    IF variant = Part000
    THEN loading \/ (totalPages > 0 /\ page >= totalPages)
    ELSE loading

\* The Previous / Next button is on screen and enabled.
previousEnabled == gridRendered /\ ~prevDisabled
nextEnabled == gridRendered /\ ~nextDisabled

\* Max with a plausible fault: the updater is p - 1 without its lower bound.
MaxUnclamped(a, b) == b

Max(a, b) == IF a >= b THEN a ELSE b
\* ------------------------------------------------------------------ initial state
Init ==
    /\ variant \in {MovieJs, Part000}
    /\ hasKey \in BOOLEAN
    /\ mounted = FALSE
    /\ movies = <<>>
    /\ page = 1
    /\ totalPages = 0
    /\ searchInput = <<>>
    /\ query = <<>>
    /\ sort = InitialSort
    /\ loading = FALSE
    /\ error = ""
    /\ requests = <<>>
    /\ issued = NoUrl
    /\ last = [action |-> "init"]

\* ------------------------------------------------------------------ actions
\* The first render: the effect runs once.
mount ==
    /\ ~mounted
    /\ last' = [action |-> "mount"]
    /\ mounted' = TRUE
    /\ useEffect(requests, page, query, sort)
    /\ UNCHANGED <<variant, hasKey, movies, page, totalPages, searchInput, query, sort>>

\* Movie.js: onChange={(e) => setSearchInput(e.target.value)}
setSearchInput(v) ==
    /\ mounted /\ variant = MovieJs
    /\ last' = [action |-> "setSearchInput", page |-> page, query |-> query]
    /\ v # searchInput
    /\ searchInput' = v
    /\ UNCHANGED <<variant, hasKey, mounted, movies, page, totalPages, query,
                   sort, loading, error, requests, issued>>

\* part_000: handleSearchInputChange
handleSearchInputChange(v) ==
    /\ mounted /\ variant = Part000
    /\ last' = [action |-> "handleSearchInputChange", page |-> page, query |-> query]
    /\ v # searchInput
    /\ searchInput' = v
    /\ IF trim(v) = <<>>
       THEN render(1, <<>>, sort)
       ELSE render(page, query, sort)
    /\ UNCHANGED <<variant, hasKey, mounted, movies, totalPages>>

\* handleSubmit with a plausible fault: the submit forgets setPage(1).
handleSubmitKeepsPage ==
    /\ mounted /\ variant = MovieJs
    /\ last' = [action |-> "handleSubmit", page |-> page, query |-> query]
    /\ render(page, trim(searchInput), sort)
    /\ UNCHANGED <<variant, hasKey, mounted, movies, totalPages, searchInput>>

\* Movie.js: handleSubmit (the form's submit)
handleSubmit ==
    /\ mounted /\ variant = MovieJs
    /\ last' = [action |-> "handleSubmit", page |-> page, query |-> query]
    /\ render(1, trim(searchInput), sort)
    /\ UNCHANGED <<variant, hasKey, mounted, movies, totalPages, searchInput>>

\* part_000: handleKeyPress with e.key === 'Enter'
handleKeyPress ==
    /\ mounted /\ variant = Part000
    /\ last' = [action |-> "handleKeyPress", page |-> page, query |-> query]
    /\ render(1, trim(searchInput), sort)
    /\ UNCHANGED <<variant, hasKey, mounted, movies, totalPages, searchInput>>

\* Movie.js: handleClear
handleClear ==
    /\ mounted /\ variant = MovieJs
    /\ last' = [action |-> "handleClear", page |-> page, query |-> query]
    /\ searchInput' = <<>>
    /\ render(1, <<>>, sort)
    /\ UNCHANGED <<variant, hasKey, mounted, movies, totalPages>>

\* The sort select's onChange: setSort(e.target.value)
setSort(s) ==
    /\ mounted
    /\ last' = [action |-> "setSort", page |-> page, query |-> query]
    /\ s \in SortOptions
    /\ s # sort
    /\ render(page, query, s)
    /\ UNCHANGED <<variant, hasKey, mounted, movies, totalPages, searchInput>>

\* The Previous button's onClick, when the button is on screen and enabled.
previous ==
    /\ mounted
    /\ last' = [action |-> "previous", page |-> page, query |-> query]
    /\ previousEnabled
    /\ render(Max(1, page - 1), query, sort)
    /\ UNCHANGED <<variant, hasKey, mounted, movies, totalPages, searchInput>>

\* The Next button's onClick, when the button is on screen and enabled.
next ==
    /\ mounted
    /\ last' = [action |-> "next", page |-> page, query |-> query]
    /\ nextEnabled
    /\ page < MaxPage
    /\ render(page + 1, query, sort)
    /\ UNCHANGED <<variant, hasKey, mounted, movies, totalPages, searchInput>>

\* The Previous button's onClick delivered while page is already 1 (a click
\* that reaches the handler although the button is disabled): the updater
\* p => Math.max(1, p - 1) runs all the same.
previousDelivered ==
    /\ mounted
    /\ page = 1
    /\ last' = [action |-> "previousDelivered", page |-> page, query |-> query]
    /\ render(Max(1, page - 1), query, sort)
    /\ UNCHANGED <<variant, hasKey, mounted, movies, totalPages, searchInput>>

\* load() returns: `kind` is "ok" or "error".
settle(i, kind) ==
    requests' = [requests EXCEPT
                    ![i].stage = "done",
                    ![i].resp = [kind |-> kind, applied |-> ~requests[i].cancelled]]

\* await fetch(url) resolves with res.ok: load() goes on to await res.json().
fetchResolves(i) ==
    /\ requests[i].stage = "fetch"
    /\ last' = [action |-> "fetchResolves", i |-> i]
    /\ requests' = [requests EXCEPT ![i].stage = "json"]
    /\ UNCHANGED <<variant, hasKey, mounted, movies, page, totalPages,
                   searchInput, query, sort, loading, error, issued>>

\* await fetch(url) rejects, or res.ok is false and load() throws.
fetchFails(i, message) ==
    /\ requests[i].stage = "fetch"
    /\ last' = [action |-> "fetchFails", i |-> i, message |-> message]
    /\ settle(i, "error")
    /\ catch(i, message)
    /\ finally(i)
    /\ UNCHANGED <<variant, hasKey, mounted, movies, page, totalPages,
                   searchInput, query, sort, issued>>

\* await res.json() resolves with the body.
jsonResolves(i, data) ==
    /\ requests[i].stage = "json"
    /\ last' = [action |-> "jsonResolves", i |-> i, data |-> data]
    /\ settle(i, "ok")
    /\ store(i, data)
    /\ finally(i)
    /\ UNCHANGED <<variant, hasKey, mounted, page, searchInput, query, sort,
                   error, issued>>

\* await res.json() rejects.
jsonRejects(i, message) ==
    /\ requests[i].stage = "json"
    /\ last' = [action |-> "jsonRejects", i |-> i, message |-> message]
    /\ settle(i, "error")
    /\ catch(i, message)
    /\ finally(i)
    /\ UNCHANGED <<variant, hasKey, mounted, movies, page, totalPages,
                   searchInput, query, sort, issued>>

Next ==
    \/ mount
    \/ \E v \in SearchTexts : setSearchInput(v)
    \/ \E v \in SearchTexts : handleSearchInputChange(v)
    \/ handleSubmit
    \/ handleKeyPress
    \/ handleClear
    \/ \E s \in SortChoices : setSort(s)
    \/ previous
    \/ next
    \/ \E i \in DOMAIN requests : fetchResolves(i)
    \/ \E i \in DOMAIN requests : \E m \in FetchFailures : fetchFails(i, m)
    \/ \E i \in DOMAIN requests : \E d \in Bodies : jsonResolves(i, d)
    \/ \E i \in DOMAIN requests : \E m \in JsonFailures : jsonRejects(i, m)

Spec == Init /\ [][Next]_vars
\* ------------------------------------------------------------------ the presenter alone
\* sortedMovies is a pure function of (movies, sort) in Movie.js and of
\* (movies, sort, query) in part_000.  The second specification starts in the
\* states the component is in once the request for (query, page 1, sort) has
\* stored an arbitrary ResultSet, and its one step is the useMemo callback.
MaxLen == 3

\* A record whose release_date does not parse (getTime() is NaN).
mE == [id |-> 5, title |-> "E", release_date |-> "not-a-date", vote_average |-> 8]

\* A record with neither a release_date nor a vote_average.
mF == [id |-> 6, title |-> "F"]

Records == {mA, mB, mC, mD, mE, mF}

\* The results arrays of at most MaxLen distinct records.
ResultSets ==
    { ms \in UNION { [1..n -> Records] : n \in 0..MaxLen } :
        \A i, j \in DOMAIN ms : i # j => ms[i] # ms[j] }

\* The submitted queries of the presenter's states.
Queries == { <<>>, <<"a">> }

\* The effect runs that led to (q, 1, s): the mount, the submit of q and, in
\* part_000, the pick of s; every run but the last was cleaned up, and every
\* load() has returned.
history(q, s) ==
    LET n == 1 + (IF q # <<>> THEN 1 ELSE 0)
               + (IF variant = Part000 /\ s # "" THEN 1 ELSE 0)
    IN  [i \in 1..n |-> [cancelled |-> i < n, stage |-> "done",
                         resp |-> [kind |-> "ok", applied |-> TRUE]]]

SortInit ==
    /\ variant \in {MovieJs, Part000}
    /\ hasKey = TRUE
    /\ mounted = TRUE
    /\ movies \in ResultSets
    /\ page = 1
    /\ totalPages = 0
    /\ query \in Queries
    /\ searchInput = query
    /\ sort \in SortOptions
    /\ loading = FALSE
    /\ error = ""
    /\ requests = history(query, sort)
    /\ issued = buildUrl(query, 1, sort)
    /\ last = [action |-> "init"]

\* The useMemo callback runs for the render of this state; `last` keeps the
\* sequence it returned.
useMemo ==
    /\ last.action = "init"
    /\ last' = [action |-> "useMemo", sortedMovies |-> sortedMovies]
    /\ UNCHANGED <<variant, hasKey, mounted, movies, page, totalPages,
                   searchInput, query, sort, loading, error, requests, issued>>

SortNext == useMemo

SortSpec == SortInit /\ [][SortNext]_vars

\* ------------------------------------------------------------------ clicks at page 1
\* The component when Previous clicks are also delivered at page 1.
ClickNext ==
    \/ Next
    \/ previousDelivered

ClickSpec == Init /\ [][ClickNext]_vars

\* ------------------------------------------------------------------ every fetch resolves
\* Some pending await of some load() run resolves or rejects.
Resolve ==
    \E i \in DOMAIN requests :
        \/ fetchResolves(i)
        \/ \E m \in FetchFailures : fetchFails(i, m)
        \/ \E d \in Bodies : jsonResolves(i, d)
        \/ \E m \in JsonFailures : jsonRejects(i, m)

\* The component when every issued fetch eventually resolves.  The user's
\* request-launching actions stop once MaxRequests requests were issued.
FairSpec == Spec /\ WF_vars(Resolve)

\* ------------------------------------------------------------------ properties
\* The most recently launched request (0 when none was launched).
Latest == Len(requests)

\* This step is the return of load() run i: its promise chain ended.
Returns(i) == requests[i].stage # "done" /\ requests'[i].stage = "done"

\* This step launched a request.
Launches == Len(requests') # Len(requests)

\* C1. Supersede invariant: when a request X resolves after a later request
\* Y was launched, the step leaves movies (the ResultSet) unchanged, whatever
\* the order in which X and Y resolve; movies changes only in the step in
\* which the most recently launched request resolves successfully, and then
\* it holds the results of that response.
C1_Supersede ==
    [][ /\ \A i \in DOMAIN requests :
             (Returns(i) /\ i < Latest) => movies' = movies
        /\ movies' # movies =>
             /\ last'.action = "jsonResolves"
             /\ last'.i = Latest
             /\ movies' = resultsOf(last'.data)
        /\ (last'.action = "jsonResolves" /\ last'.i = Latest) =>
             movies' = resultsOf(last'.data)
      ]_vars

\* C1 witness: X (request 1) resolved successfully, with other data, after
\* its successor Y (request 2) had resolved successfully; movies is Y's.
C1_Witness ==
    /\ Latest = 2
    /\ sort = InitialSort
    /\ last.action = "jsonResolves" /\ last.i = 1
    /\ requests[2].resp = [kind |-> "ok", applied |-> TRUE]
    /\ movies # <<>>
    /\ resultsOf(last.data) # movies
\* C2 as stated: every change of the QueryState (page, search text, submitted
\* query, sort key) marks the unresolved request issued before it superseded,
\* and a superseded request's resolution changes no shared state.
C2_EveryQueryStateChange ==
    [][ /\ ( /\ <<page, searchInput, query, sort>>' # <<page, searchInput, query, sort>>
             /\ Latest > 0
             /\ requests[Latest].stage # "done" )
           => requests'[Latest].cancelled
        /\ \A i \in DOMAIN requests :
             (Returns(i) /\ i < Latest) =>
                UNCHANGED <<movies, error, totalPages, loading>>
      ]_vars

\* C2, amended. Every change of a dependency of the effect (page, submitted
\* query, and in part_000 the sort key) launches one request and marks the
\* request issued before it cancelled; the resolution, success or failure, of
\* a request that has a successor leaves movies, error, totalPages and
\* loading unchanged.
C2_SupersededIsNoOp ==
    [][ /\ ( /\ \/ page' # page
                \/ query' # query
                \/ variant = Part000 /\ sort' # sort
             /\ Latest > 0 )
           => /\ Len(requests') = Latest + 1
              /\ requests'[Latest].cancelled
        /\ \A i \in DOMAIN requests :
             (Returns(i) /\ i < Latest) =>
                UNCHANGED <<movies, error, totalPages, loading>>
      ]_vars

\* C2 witness: a superseded request has just failed while its successor is
\* in flight: no error is shown and loading is still set.
C2_Witness ==
    /\ last.action \in {"fetchFails", "jsonRejects"}
    /\ last.i < Latest
    /\ requests[Latest].stage # "done"
    /\ loading
    /\ error = ""

\* A sequence is a reordering of another.
IsPermutation(a, b) ==
    /\ Len(a) = Len(b)
    /\ \A k \in DOMAIN a :
          Cardinality({j \in DOMAIN a : a[j] = a[k]})
            = Cardinality({j \in DOMAIN b : b[j] = a[k]})

\* C3 as stated: a change of the sort key issues no request and supersedes
\* nothing.
C3_SortNeverFetches ==
    [][ sort' # sort => UNCHANGED <<requests, issued, movies, loading>> ]_vars

\* C3, amended. In Movie.js a change of the sort key issues no request and
\* supersedes nothing: requests, movies, loading and error are unchanged and
\* the sorted view is a reordering of movies. In part_000, with a credential,
\* it launches one request and cancels the one issued before.
C3_SortFetchesOnlyInPart000 ==
    [][ sort' # sort =>
          IF variant = MovieJs
          THEN /\ UNCHANGED <<requests, issued, movies, loading, error,
                              page, query>>
               /\ IsPermutation(sortedOf(movies, query, sort'), movies)
          ELSE hasKey =>
                 /\ Len(requests') = Latest + 1
                 /\ requests'[Latest].cancelled
                 /\ movies' = movies
      ]_vars

\* C3 witness: in Movie.js the sort key has just changed while a request is
\* in flight, and the view shows the movies in another order.
C3_Witness ==
    /\ variant = MovieJs
    /\ last.action = "setSort"
    /\ Latest > 0
    /\ requests[Latest].stage = "fetch" /\ ~requests[Latest].cancelled
    /\ Len(movies) > 1
    /\ sortedMovies # movies

\* decodeURIComponent, the inverse the server applies to a query parameter.
RECURSIVE decodeURIComponent(_)
decodeURIComponent(s) ==
    IF s = <<>> THEN <<>>
    ELSE IF Head(s) = "%" /\ Len(s) >= 3
         THEN LET hex == SubSeq(s, 2, 3)
                  c == CASE hex = <<"2", "0">> -> " "
                         [] hex = <<"2", "6">> -> "&"
                         [] hex = <<"2", "5">> -> "%"
                         [] OTHER -> "?"
              IN  <<c>> \o decodeURIComponent(SubSeq(s, 4, Len(s)))
         ELSE <<Head(s)>> \o decodeURIComponent(Tail(s))

\* The URL targets the endpoint that QueryState (p, q) calls for.
TargetsEndpointOf(url, p, q) ==
    /\ url.page = p
    /\ q = <<>> => url.endpoint = "discover/movie"
    /\ q # <<>> =>
         /\ url.endpoint = "search/movie"
         /\ \A k \in DOMAIN url.query : url.query[k] \notin {" ", "&"}
         /\ decodeURIComponent(url.query) = q

\* C4. Endpoint selection: every launch constructs exactly one request; it
\* targets the discovery endpoint when the submitted query is empty and the
\* search endpoint, with the query URL-escaped, when it is not, and carries
\* the current page. With a credential the URL last fetched is always the one
\* of the current page and submitted query.
C4_EndpointSelection ==
    /\ [](mounted /\ hasKey => TargetsEndpointOf(issued, page, query))
    /\ [][ Launches =>
             /\ Len(requests') = Latest + 1
             /\ TargetsEndpointOf(issued', page', query')
         ]_vars

\* C4 witness: a search request for "a &" is in flight, escaped a%20%26.
C4_Witness ==
    /\ Latest > 0
    /\ requests[Latest].stage = "fetch"
    /\ query = <<"a", " ", "&">>
    /\ issued.endpoint = "search/movie"
    /\ issued.query = <<"a", "%", "2", "0", "%", "2", "6">>

\* C5. Whenever the submitted query changes the page is 1 in the resulting
\* state, and the request that change launches is for page 1.
C5_PageResetOnQueryChange ==
    [][ query' # query =>
          /\ page' = 1
          /\ hasKey => (Launches /\ issued'.page = 1)
      ]_vars

\* C5 witness: a submit, or emptying the search box, has just changed the
\* submitted query while the page was above 1, and the page is 1.
C5_Witness ==
    /\ last.action \in {"handleSubmit", "handleKeyPress", "handleClear",
                        "handleSearchInputChange"}
    /\ last.page > 1
    /\ last.query # query
    /\ page = 1
    /\ hasKey /\ issued.page = 1
\* C6 as stated: from the launch of a request until it resolves, no record of
\* the previous ResultSet is on screen.
C6_DisplayResetWhileInFlight ==
    (Latest > 0 /\ requests[Latest].stage # "done") => cards = <<>>

\* C7. Pagination enabling: Previous is not enabled when page = 1; Next is
\* not enabled while loading nor, when totalPages > 0, when page >= totalPages;
\* and no Previous or Next step is taken from such a state.
C7_PaginationEnabling ==
    /\ [](page = 1 => ~previousEnabled)
    /\ [](loading => ~nextEnabled)
    /\ []((totalPages > 0 /\ page >= totalPages) => ~nextEnabled)
    /\ [][ /\ last'.action = "previous" => (page # 1 /\ page' = page - 1)
           /\ last'.action = "next" =>
                /\ ~loading
                /\ ~(totalPages > 0 /\ page >= totalPages)
                /\ page' = page + 1
         ]_vars

\* C7 witness: part_000 shows the pager on the last of two pages, reached by
\* Next: Previous is enabled and Next is not.
C7_Witness ==
    /\ variant = Part000
    /\ totalPages = 2 /\ page = 2
    /\ gridRendered
    /\ previousEnabled /\ ~nextEnabled

\* C8. Without a credential no request is ever issued, whatever the user
\* does, and once the component is mounted the configuration error message
\* is set.
C8_MissingCredentialIsTerminal ==
    ~hasKey =>
       /\ requests = <<>>
       /\ issued = NoUrl
       /\ ~loading
       /\ mounted => (error = MissingKeyMessage /\ error # "")

\* C8 witness: without a credential the user has searched, paged and sorted.
C8_Witness ==
    /\ ~hasKey /\ mounted
    /\ query # <<>>
    /\ page > 1
    /\ sort # InitialSort
    /\ error # ""

\* The error of the current request's failure is shown.
FailureShown ==
    /\ Latest > 0
    /\ requests[Latest].resp = [kind |-> "error", applied |-> TRUE]
    /\ error # ""

\* C9 as stated: after the current request has failed and its error is shown,
\* submitting the same search text again issues a new request.
C9_RetryReissues ==
    [][ ( /\ FailureShown
          /\ Latest < MaxRequests
          /\ last'.action \in {"handleSubmit", "handleKeyPress"}
          /\ trim(searchInput) = query )
        => Launches
      ]_vars

\* C10 as stated: a failure of the current (not superseded) request leaves
\* the error message non-empty, and no state reached by a successful
\* resolution, of any request, has a non-empty error message.
C10_NoErrorAfterAnySuccess ==
    /\ (last.action \in {"fetchFails", "jsonRejects"} /\ last.i = Latest)
          => error # ""
    /\ last.action = "jsonResolves" => error = ""

\* C10, amended. When the current (not superseded) request fails, by HTTP
\* status or by a rejected fetch or body, the error message is non-empty in
\* the state reached; when the current request resolves successfully the
\* error message is empty in the state reached.
C10_RequestErrorLifecycle ==
    /\ (last.action \in {"fetchFails", "jsonRejects"} /\ last.i = Latest)
          => error # ""
    /\ (last.action = "jsonResolves" /\ last.i = Latest) => error = ""

\* C10 witness: the first request failed while current and showed its error;
\* the second has just resolved successfully and the error is empty.
C10_Witness ==
    /\ Latest = 2
    /\ requests[1].resp = [kind |-> "error", applied |-> TRUE]
    /\ last.action = "jsonResolves" /\ last.i = 2
    /\ error = ""

\* C11 as stated: a request error replaces the grid. In every state in which
\* a request error message is on screen (error is non-empty and a credential
\* is configured, so the message is not the configuration one), no movie card
\* is on screen, those of an earlier successful ResultSet included.
C11_ErrorReplacesGrid ==
    (hasKey /\ error # "") => cards = <<>>

\* The sort keys by the order they ask for.
DateAsc == {"release_asc", "release_date.asc"}
DateDesc == {"release_desc", "release_date.desc"}
RatingAsc == {"rating_asc", "vote_average.asc"}
RatingDesc == {"rating_desc", "vote_average.desc"}

\* seq is ordered as sort key s asks: release date non-decreasing for
\* date-asc, non-increasing for date-desc, likewise for the rating keys.
OrderedBy(s, seq) ==
    \A i, j \in DOMAIN seq :
        i < j =>
            CASE s \in DateAsc    -> dateVal(seq[i]) <= dateVal(seq[j])
              [] s \in DateDesc   -> dateVal(seq[i]) >= dateVal(seq[j])
              [] s \in RatingAsc  -> ratingVal(seq[i]) <= ratingVal(seq[j])
              [] s \in RatingDesc -> ratingVal(seq[i]) >= ratingVal(seq[j])
              [] OTHER -> TRUE

\* The sequence the useMemo step returned is on screen.
Shown == last.action = "useMemo"

\* C12 as stated: for every ResultSet and every sort key other than none the
\* displayed sequence is a permutation of the ResultSet ordered by the key of
\* the sort key, and it depends on (ResultSet, sort key) only: the submitted
\* query makes no difference.
C12_SortedForEveryKey ==
    (Shown /\ sort # "") =>
        /\ IsPermutation(last.sortedMovies, movies)
        /\ OrderedBy(sort, last.sortedMovies)
        /\ \A q \in Queries : sortedOf(movies, q, sort) = last.sortedMovies

\* C12, amended. Sort ordering: in Movie.js for every ResultSet and sort key,
\* and in part_000 for every ResultSet and sort key other than none while the
\* submitted query is non-empty, the displayed sequence is a permutation of
\* the ResultSet ordered by the key of the sort key, the same for every
\* non-empty query; [A(2020-01-01, 5), B(1999-01-01, 8)] is displayed as
\* [B, A] under rating-desc and under date-asc.  In part_000 with an empty
\* submitted query (discover mode) the displayed sequence is the ResultSet in
\* server order, whatever the sort key.
C12_SortOrdering ==
    Shown =>
        IF variant = MovieJs \/ (query # <<>> /\ sort # "")
        THEN /\ IsPermutation(last.sortedMovies, movies)
             /\ OrderedBy(sort, last.sortedMovies)
             /\ \A q \in Queries \ {<<>>} :
                    sortedOf(movies, q, sort) = last.sortedMovies
             /\ (movies = <<mA, mB>> /\ sort \in RatingDesc \cup DateAsc)
                    => last.sortedMovies = <<mB, mA>>
        ELSE last.sortedMovies = movies

\* The scenario of C12 in part_000's search mode, and a ResultSet of three
\* records that the sort reorders.
C12_Witness ==
    /\ Shown
    /\ variant = Part000 /\ query # <<>>
    /\ sort \in RatingDesc
    /\ movies = <<mA, mB, mD>>
    /\ last.sortedMovies = <<mB, mA, mD>>

\* m has a release date that parses.
HasValidDate(m) ==
    /\ "release_date" \in DOMAIN m
    /\ m.release_date # ""
    /\ getTime(m.release_date).finite

\* C13 as stated: wherever the presenter sorts by release date, a record whose
\* release date is missing or does not parse is displayed before every record
\* with a valid release date under date-asc and after every such record under
\* date-desc, valid dates before the epoch included.
C13_MissingDateFirstOrLast ==
    (Shown /\ (variant = MovieJs \/ query # <<>>)) =>
        \A i, j \in DOMAIN last.sortedMovies :
            (~HasValidDate(last.sortedMovies[i]) /\ HasValidDate(last.sortedMovies[j])) =>
                /\ sort \in DateAsc => i < j
                /\ sort \in DateDesc => i > j

\* The comparison key of record m under sort key s (none compares nothing).
keyOf(s, m) ==
    CASE s \in DateAsc \cup DateDesc     -> dateVal(m)
      [] s \in RatingAsc \cup RatingDesc -> ratingVal(m)
      [] OTHER -> 0

\* The place of record m in seq.
indexOf(seq, m) == CHOOSE k \in DOMAIN seq : seq[k] = m

\* C14. Sorting is stable: for every ResultSet and sort key, any two records
\* whose comparison keys are equal (two records that both lack the sorted
\* field included) are displayed in the same relative order as in the source
\* ResultSet.
C14_StableSort ==
    Shown =>
        /\ IsPermutation(last.sortedMovies, movies)
        /\ \A i, j \in DOMAIN movies :
               (i < j /\ keyOf(sort, movies[i]) = keyOf(sort, movies[j])) =>
                   indexOf(last.sortedMovies, movies[i])
                       < indexOf(last.sortedMovies, movies[j])

\* The sort moved B behind two records that both lack a release date, and
\* kept those two in their source order.
C14_Witness ==
    /\ Shown
    /\ sort \in DateAsc
    /\ movies = <<mB, mF, mC>>
    /\ last.sortedMovies = <<mF, mC, mB>>

\* The first request has stored its results, and no other request was
\* launched nor another sort key picked since startup.
FirstResults ==
    /\ Latest = 1
    /\ requests[1].stage = "done"
    /\ requests[1].resp.kind = "ok"
    /\ sort = InitialSort

\* C15 as stated: when the sort key is none the displayed sequence equals the
\* ResultSet in server order, and none is the sort key of the initial
\* QueryState, so the first results shown after startup are in server order.
C15_NoneIsInitial ==
    /\ sort = "" => sortedMovies = movies
    /\ ~mounted => sort = ""
    /\ FirstResults => cards = movies

\* C15, amended. When the sort key is none the displayed sequence equals the
\* ResultSet in server order.  In part_000 none is the sort key of the initial
\* QueryState and the first results shown after startup are in server order;
\* Movie.js has no none: its initial sort key is release_desc and the first
\* results shown after startup are ordered by release date, newest first.
C15_InitialSortKey ==
    /\ sort = "" => sortedMovies = movies
    /\ variant = MovieJs => sort # ""
    /\ ~mounted => sort = (IF variant = Part000 THEN "" ELSE "release_desc")
    /\ FirstResults =>
           cards = (IF variant = Part000 THEN movies
                    ELSE sortCopy("release_desc", movies))

\* part_000 shows its first results, out of date order, as the server sent
\* them.
C15_Witness ==
    /\ FirstResults
    /\ variant = Part000
    /\ movies = <<mC, mB, mD>>
    /\ cards = <<mC, mB, mD>>

\* The current request resolved successfully with an empty results array,
\* and no error is stored.
EmptySuccess ==
    /\ Latest > 0
    /\ requests[Latest].stage = "done"
    /\ requests[Latest].resp.kind = "ok"
    /\ movies = <<>>
    /\ error = ""

\* No request has resolved yet.
NothingResolved == \A i \in DOMAIN requests : requests[i].stage # "done"

\* C16 as stated: empty results are distinguishable from loading. The "no
\* results" indicator is on screen once the current request has resolved
\* successfully with an empty results array and no error, and it is never on
\* screen while no request has resolved yet (startup) nor while the current
\* request is loading.
C16_NoResultsOnlyAfterEmptySuccess ==
    /\ EmptySuccess => noResults
    /\ noResults => (~NothingResolved /\ ~loading)

\* C17. Exactly one outcome per resolved request: the step in which a
\* non-superseded request resolves either replaces movies wholesale with the
\* response's results (the empty sequence when the body has no results array)
\* and leaves error empty, or stores an error message and leaves movies
\* unchanged; never both, and loading is false in the resulting state.
C17_ExactlyOneOutcome ==
    [][ \A i \in DOMAIN requests :
          (Returns(i) /\ i = Latest) =>
            /\ loading' = FALSE
            /\ \/ /\ requests'[i].resp.kind = "ok"
                  /\ movies' = (IF "results" \in DOMAIN last'.data
                                THEN last'.data.results ELSE <<>>)
                  /\ error = "" /\ error' = ""
               \/ /\ requests'[i].resp.kind = "error"
                  /\ error' # ""
                  /\ movies' = movies
      ]_vars

\* The current request failed after an earlier one had stored records: the
\* message is stored and the records are still those of the earlier request.
C17_Witness ==
    /\ Latest = 2
    /\ last.action \in {"fetchFails", "jsonRejects"} /\ last.i = 2
    /\ requests[1].resp = [kind |-> "ok", applied |-> TRUE]
    /\ error # "" /\ ~loading
    /\ movies = <<mA, mB>>

\* Request i is current: it has not resolved and was not superseded.
Current(i) == requests[i].stage # "done" /\ ~requests[i].cancelled

\* C18. At most one network operation is current at a time: in every state at
\* most one issued request is both unresolved and not superseded, and it is
\* the most recently launched one, whose page and submitted query are those
\* of the current QueryState.
C18_AtMostOneCurrent ==
    /\ Cardinality({ i \in DOMAIN requests : Current(i) }) <= 1
    /\ \A i \in DOMAIN requests :
           Current(i) => (i = Latest /\ TargetsEndpointOf(issued, page, query))

\* Two earlier requests are still unresolved but superseded, and the third is
\* the current one.
C18_Witness ==
    /\ Latest = 3
    /\ requests[1].stage # "done" /\ requests[1].cancelled
    /\ requests[2].stage # "done" /\ requests[2].cancelled
    /\ Current(3)
    /\ TargetsEndpointOf(issued, page, query)

\* C19. page >= 1 in every state, under any sequence of Previous, Next,
\* search submit, clear and sort steps, Previous clicks delivered while page
\* is already 1 included; and no request is issued for a page below 1.
C19_PageAtLeastOne ==
    /\ page >= 1
    /\ issued # NoUrl => issued.page >= 1

\* A Previous click was delivered at page 1 once three requests had been
\* issued: page is still 1 and the request in force is the one for page 1.
C19_Witness ==
    /\ last.action = "previousDelivered"
    /\ page = 1
    /\ Latest = 3
    /\ issued.page = 1

\* C20. The loading flag never sticks: whenever loading is true there is an
\* unresolved, non-superseded request (the latest one); and, with a
\* credential configured, when every issued fetch eventually resolves and the
\* user's actions eventually stop, loading eventually becomes false and stays
\* false, even though superseded requests skip their own clearing of the flag.
C20_LoadingNeverSticks ==
    /\ [](loading => (Latest > 0 /\ Current(Latest)))
    /\ hasKey => <>[](~loading)

\* A superseded request has resolved without clearing the flag, the request
\* that superseded it has resolved too, and loading is false.
C20_Witness ==
    /\ hasKey
    /\ Latest = MaxRequests
    /\ \A i \in DOMAIN requests : requests[i].stage = "done"
    /\ \E i \in DOMAIN requests : ~requests[i].resp.applied
    /\ ~loading
====
